---- MODULE Spec2Model ----
(***************************************************************************)
(* State-machine model of the OCRTool component (src/app/page.tsx): the    *)
(* React state of the component, the drag listeners installed on the       *)
(* document, and the asynchronous upload-decode and recognition calls that *)
(* are outstanding.  zoomedSinceDraw and pointer are history variables,    *)
(* kept for stating properties: no handler reads them.                     *)
(*                                                                         *)
(* Numbers.  The zoom factor only takes multiples of 0.25, so it is kept   *)
(* as a count of quarters (zoom = 1 is ZoomDen quarters).  A quotient      *)
(* selection.x / zoom is kept as the exact fraction                        *)
(* [num |-> x * ZoomDen, den |-> zoom-in-quarters].                        *)
(*                                                                         *)
(* ocrLanguage is handed to the recognition service unchanged and is read  *)
(* by nothing else; it is left out of the state.                           *)
(***************************************************************************)
EXTENDS Integers, Sequences, FiniteSets

VARIABLES pdfFile, pdfPages, currentPage, zoom, isProcessing, selection,
          isSelecting, extractedText, listeners, inflight, zoomedSinceDraw,
          pointer

vars == <<pdfFile, pdfPages, currentPage, zoom, isProcessing, selection,
          isSelecting, extractedText, listeners, inflight, zoomedSinceDraw,
          pointer>>

----------------------------------------------------------------------------
(* Bounds of the model *)

\* largest clientX / clientY of a pointer event of a mouse-only session
MaxClient == 1
\* largest number of drags whose listeners are installed at the same time
MaxListeners == 1

(* Program constants *)

\* zoom values are multiples of 0.25 = 1 / ZoomDen
ZoomDen == 4
\* useState(1)
ZoomDefault == 4
\* Math.max(0.5, ...)
ZoomMin == 2
\* Math.min(3, ...)
ZoomMax == 12

----------------------------------------------------------------------------
(* Values *)

NoFile == "none"
NoPointer == [x |-> 0, y |-> 0]
NoSel == [x |-> 0, y |-> 0, width |-> 0, height |-> 0, present |-> FALSE]

Sel(x, y, w, h) == [x |-> x, y |-> y, width |-> w, height |-> h, present |-> TRUE]

Min(a, b) == IF a <= b THEN a ELSE b
Max(a, b) == IF a >= b THEN a ELSE b
Abs(a) == IF a >= 0 THEN a ELSE -a

\* The files a user can pick, with the MIME type the browser reports for
\* each, as the pair <<type, subtype>> of "type/subtype".
Files == {"notes.txt", "anim.gif", "doc.pdf"}

FileType(f) ==
    CASE f = "notes.txt" -> << "text", "plain" >>
      [] f = "anim.gif"  -> << "image", "gif" >>
      [] f = "doc.pdf"   -> << "application", "pdf" >>

\* file.type.startsWith("image/")
IsImage(f) == FileType(f)[1] = "image"
\* file.type === "application/pdf"
IsPDF(f) == FileType(f) = << "application", "pdf" >>

Page(n, w, h) == [pageNumber |-> n, width |-> w, height |-> h]

\* What decoding a file yields when it succeeds: one page for an image,
\* pdf.numPages pages for a PDF.
DecodedPages(f) ==
    IF IsImage(f) THEN << Page(1, 2, 2) >>
    ELSE << Page(1, 4, 2), Page(2, 2, 2) >>

\* Text as a sequence of characters.
Chars == {" ", "a"}
IsSpace(c) == c = " "

RECURSIVE TrimStart(_)
TrimStart(s) ==
    IF s = << >> THEN << >>
    ELSE IF IsSpace(Head(s)) THEN TrimStart(Tail(s)) ELSE s

RECURSIVE TrimEnd(_)
TrimEnd(s) ==
    IF s = << >> THEN << >>
    ELSE IF IsSpace(s[Len(s)]) THEN TrimEnd(SubSeq(s, 1, Len(s) - 1)) ELSE s

\* String.prototype.trim
Trim(s) == TrimEnd(TrimStart(s))

\* Texts the recognition service may return.
RawTexts == { << " ", "a", " " >>, << " " >> }
\* Texts the user may leave in the text area after an edit.
UserTexts == { << >>, << "a", " " >> }

----------------------------------------------------------------------------
(* Geometry *)

\* The exact quotient n / z of an integer by a zoom factor.
Quot(n, z) == [num |-> n * ZoomDen, den |-> z]

\* The conversion as it would be if it rounded up.
ToUnsignedLong_Ceiling(q) == (q.num + q.den - 1) \div q.den

\* Assigning a non-negative number to canvas.width or canvas.height converts
\* it to an unsigned long: the fraction is dropped.
ToUnsignedLong(q) == q.num \div q.den

\* canvas.width = sourcePage.canvas.width * zoom   (drawCurrentPage)
CanvasWidth == ToUnsignedLong([num |-> pdfPages[currentPage + 1].width * zoom, den |-> ZoomDen])
CanvasHeight == ToUnsignedLong([num |-> pdfPages[currentPage + 1].height * zoom, den |-> ZoomDen])

\* What getBoundingClientRect can report: the origin of the canvas on the
\* screen, and the ratio canvas.width / rect.width of intrinsic to rendered
\* size (the canvas is styled max-w-full, so it may be rendered smaller).
RectOrigins == {0, 1}
Scales == {1, 2}

\* (event.clientX - rect.left) * scaleX
CanvasCoord(client, origin, scale) == (client - origin) * scale

\* handleMouseMove as it would be without the normalisation: the start point
\* is kept as the corner and the extent is signed.
DragRect_Unnormalized(x, y, currentX, currentY) ==
    Sel(x, y, currentX - x, currentY - y)

\* The rectangle handleMouseMove stores for a drag begun at (x, y).
DragRect(x, y, currentX, currentY) ==
    Sel(Min(x, currentX), Min(y, currentY), Abs(currentX - x), Abs(currentY - y))

\* performOCR as it would be with a zoom captured by an earlier render (the
\* zoom missing from the callback's dependencies): the divisor stays at the
\* zoom of the first render.
Crop_StaleZoom(sel, z) ==
    [ sourceX      |-> Quot(sel.x, ZoomDefault),
      sourceY      |-> Quot(sel.y, ZoomDefault),
      sourceWidth  |-> Quot(sel.width, ZoomDefault),
      sourceHeight |-> Quot(sel.height, ZoomDefault),
      width        |-> ToUnsignedLong(Quot(sel.width, ZoomDefault)),
      height       |-> ToUnsignedLong(Quot(sel.height, ZoomDefault)) ]

\* The crop performOCR takes for a selection at a zoom: the source rectangle
\* handed to drawImage and the size of the temporary canvas.
Crop(sel, z) ==
    [ sourceX      |-> Quot(sel.x, z),
      sourceY      |-> Quot(sel.y, z),
      sourceWidth  |-> Quot(sel.width, z),
      sourceHeight |-> Quot(sel.height, z),
      width        |-> ToUnsignedLong(Quot(sel.width, z)),
      height       |-> ToUnsignedLong(Quot(sel.height, z)) ]

NoCrop == Crop(NoSel, ZoomDefault)
NoPage == Page(0, 0, 0)

\* The outstanding calls, oldest first; one settles and leaves the others.
RemoveAt(seq, i) == SubSeq(seq, 1, i - 1) \o SubSeq(seq, i + 1, Len(seq))

UploadJob(f) == [kind |-> "upload", file |-> f, page |-> NoPage, crop |-> NoCrop]
OcrJob(p, c) == [kind |-> "ocr", file |-> NoFile, page |-> p, crop |-> c]

----------------------------------------------------------------------------
(* Initial state: the useState defaults *)

Init ==
    /\ pdfFile = NoFile
    /\ pdfPages = << >>
    /\ currentPage = 0
    /\ zoom = ZoomDefault
    /\ isProcessing = FALSE
    /\ selection = NoSel
    /\ isSelecting = FALSE
    /\ extractedText = << >>
    /\ listeners = << >>
    /\ inflight = << >>
    /\ zoomedSinceDraw = FALSE
    /\ pointer = NoPointer

\* The navigation, zoom and selection cards and the canvas are rendered only
\* when pdfPages.length > 0.
ControlsShown == Len(pdfPages) > 0

----------------------------------------------------------------------------
(* Upload *)

\* The file input is disabled while isProcessing.  Toast notifications are
\* state of the useToast hook, not of this component: a rejected upload
\* changes nothing here.
HandleFileUpload(f) ==
    /\ ~isProcessing
    /\ IF ~IsImage(f) /\ ~IsPDF(f)
       THEN UNCHANGED vars
       ELSE /\ pdfFile' = f
            /\ isProcessing' = TRUE
            /\ inflight' = Append(inflight, UploadJob(f))
            /\ UNCHANGED <<pdfPages, currentPage, zoom, selection, isSelecting,
                           extractedText, listeners, zoomedSinceDraw, pointer>>

\* The success branch as it would be without setCurrentPage(0).
UploadResolve_KeepsPage(i) ==
    /\ i \in DOMAIN inflight
    /\ inflight[i].kind = "upload"
    /\ pdfPages' = DecodedPages(inflight[i].file)
    /\ isProcessing' = FALSE
    /\ inflight' = RemoveAt(inflight, i)
    /\ UNCHANGED <<pdfFile, currentPage, zoom, selection, isSelecting, extractedText,
                   listeners, zoomedSinceDraw, pointer>>

\* The decode succeeded: setPdfPages, setCurrentPage(0) and, in the finally
\* block, setIsProcessing(false) run in one continuation and are rendered
\* together.
UploadResolve(i) ==
    /\ i \in DOMAIN inflight
    /\ inflight[i].kind = "upload"
    /\ pdfPages' = DecodedPages(inflight[i].file)
    /\ currentPage' = 0
    /\ isProcessing' = FALSE
    /\ inflight' = RemoveAt(inflight, i)
    /\ UNCHANGED <<pdfFile, zoom, selection, isSelecting, extractedText, listeners,
                   zoomedSinceDraw, pointer>>

\* The catch block as it would be if it reset the page list.
UploadFail_DropsPages(i) ==
    /\ i \in DOMAIN inflight
    /\ inflight[i].kind = "upload"
    /\ pdfPages' = << >>
    /\ currentPage' = 0
    /\ isProcessing' = FALSE
    /\ inflight' = RemoveAt(inflight, i)
    /\ UNCHANGED <<pdfFile, zoom, selection, isSelecting, extractedText, listeners,
                   zoomedSinceDraw, pointer>>

\* The decode threw: the catch block only reports it.
UploadFail(i) ==
    /\ i \in DOMAIN inflight
    /\ inflight[i].kind = "upload"
    /\ isProcessing' = FALSE
    /\ inflight' = RemoveAt(inflight, i)
    /\ UNCHANGED <<pdfFile, pdfPages, currentPage, zoom, selection, isSelecting,
                   extractedText, listeners, zoomedSinceDraw, pointer>>

----------------------------------------------------------------------------
(* Navigation and zoom *)

PreviousPage ==
    /\ ControlsShown
    /\ currentPage # 0
    /\ currentPage' = Max(0, currentPage - 1)
    /\ UNCHANGED <<pdfFile, pdfPages, zoom, isProcessing, selection, isSelecting,
                   extractedText, listeners, inflight, zoomedSinceDraw, pointer>>

NextPage ==
    /\ ControlsShown
    /\ currentPage # Len(pdfPages) - 1
    /\ currentPage' = Min(Len(pdfPages) - 1, currentPage + 1)
    /\ UNCHANGED <<pdfFile, pdfPages, zoom, isProcessing, selection, isSelecting,
                   extractedText, listeners, inflight, zoomedSinceDraw, pointer>>

\* setZoom as it would be if a change of zoom cleared the selection.
SetZoom_ClearsSelection(z) ==
    /\ ControlsShown
    /\ zoom' = z
    /\ selection' = IF z # zoom THEN NoSel ELSE selection
    /\ zoomedSinceDraw' = FALSE
    /\ UNCHANGED <<pdfFile, pdfPages, currentPage, isProcessing, isSelecting,
                   extractedText, listeners, inflight, pointer>>

\* zoomedSinceDraw is a history variable: it records that the zoom factor
\* changed after the present selection was begun.
SetZoom(z) ==
    /\ ControlsShown
    /\ zoom' = z
    /\ zoomedSinceDraw' = (zoomedSinceDraw \/ (selection.present /\ z # zoom))
    /\ UNCHANGED <<pdfFile, pdfPages, currentPage, isProcessing, selection, isSelecting,
                   extractedText, listeners, inflight, pointer>>

ZoomOut == SetZoom(Max(ZoomMin, zoom - 1))

\* The zoom-in button as it would be without Math.min(3, ...).
ZoomIn_Unclamped == SetZoom(zoom + 1)

ZoomIn == SetZoom(Min(ZoomMax, zoom + 1))

ZoomReset == SetZoom(ZoomDefault)

----------------------------------------------------------------------------
(* Selection *)

ToggleSelecting ==
    /\ ControlsShown
    /\ isSelecting' = ~isSelecting
    /\ UNCHANGED <<pdfFile, pdfPages, currentPage, zoom, isProcessing, selection,
                   extractedText, listeners, inflight, zoomedSinceDraw, pointer>>

ClearSelection ==
    /\ ControlsShown
    /\ selection.present
    /\ selection' = NoSel
    /\ zoomedSinceDraw' = FALSE
    /\ UNCHANGED <<pdfFile, pdfPages, currentPage, zoom, isProcessing, isSelecting,
                   extractedText, listeners, inflight, pointer>>

\* handleMouseDown as it would be if a new drag cancelled the outstanding
\* recognition call.
HandleMouseDown_CancelsRecognition(x, y) ==
    /\ ControlsShown
    /\ x >= 0 /\ x <= CanvasWidth
    /\ y >= 0 /\ y <= CanvasHeight
    /\ IF ~isSelecting
       THEN UNCHANGED vars
       ELSE /\ Len(listeners) < MaxListeners
            /\ selection' = Sel(x, y, 0, 0)
            /\ listeners' = Append(listeners, [x |-> x, y |-> y])
            /\ zoomedSinceDraw' = FALSE
            /\ pointer' = [x |-> x, y |-> y]
            /\ inflight' = SelectSeq(inflight, LAMBDA j : j.kind # "ocr")
            /\ UNCHANGED <<pdfFile, pdfPages, currentPage, zoom, isProcessing, isSelecting,
                           extractedText>>

\* handleMouseDown as it would be without the test of isSelecting.
HandleMouseDown_IgnoresMode(x, y) ==
    /\ ControlsShown
    /\ x >= 0 /\ x <= CanvasWidth
    /\ y >= 0 /\ y <= CanvasHeight
    /\ Len(listeners) < MaxListeners
    /\ selection' = Sel(x, y, 0, 0)
    /\ listeners' = Append(listeners, [x |-> x, y |-> y])
    /\ zoomedSinceDraw' = FALSE
    /\ pointer' = [x |-> x, y |-> y]
    /\ UNCHANGED <<pdfFile, pdfPages, currentPage, zoom, isProcessing, isSelecting,
                   extractedText, inflight>>

\* A mouse-down delivered to the canvas at canvas point (x, y), which lies
\* on the canvas.  The handler returns at once unless selecting mode is on.
HandleMouseDown(x, y) ==
    /\ ControlsShown
    /\ x >= 0 /\ x <= CanvasWidth
    /\ y >= 0 /\ y <= CanvasHeight
    /\ IF ~isSelecting
       THEN UNCHANGED vars
       ELSE /\ Len(listeners) < MaxListeners
            /\ selection' = Sel(x, y, 0, 0)
            /\ listeners' = Append(listeners, [x |-> x, y |-> y])
            /\ zoomedSinceDraw' = FALSE
            /\ pointer' = [x |-> x, y |-> y]
            /\ UNCHANGED <<pdfFile, pdfPages, currentPage, zoom, isProcessing, isSelecting,
                           extractedText, inflight>>

\* pointer is a history variable: the canvas point of the latest mouse event
\* of the drag in progress.
\*
\* A mouse-move anywhere on the document, at canvas point (currentX,
\* currentY): every installed handleMouseMove runs, in the order installed,
\* and the last setSelection is the one rendered.
HandleMouseMove(currentX, currentY) ==
    /\ listeners # << >>
    /\ LET d == listeners[Len(listeners)]
       IN  selection' = DragRect(d.x, d.y, currentX, currentY)
    /\ pointer' = [x |-> currentX, y |-> currentY]
    /\ UNCHANGED <<pdfFile, pdfPages, currentPage, zoom, isProcessing, isSelecting,
                   extractedText, listeners, inflight, zoomedSinceDraw>>

\* handleMouseUp as it would be without the removeEventListener calls.
HandleMouseUp_KeepsListeners ==
    /\ listeners # << >>
    /\ isSelecting' = FALSE
    /\ UNCHANGED <<pdfFile, pdfPages, currentPage, zoom, isProcessing, selection,
                   extractedText, listeners, inflight, zoomedSinceDraw, pointer>>

\* A mouse-up anywhere on the document: every installed handleMouseUp runs,
\* removes its own pair of listeners and turns selecting mode off.
HandleMouseUp ==
    /\ listeners # << >>
    /\ listeners' = << >>
    /\ isSelecting' = FALSE
    /\ pointer' = NoPointer
    /\ UNCHANGED <<pdfFile, pdfPages, currentPage, zoom, isProcessing, selection,
                   extractedText, inflight, zoomedSinceDraw>>

----------------------------------------------------------------------------
(* Extraction *)

\* The button as it would be without disabled={isProcessing}.
ExtractEnabled_Ungated == ControlsShown /\ selection.present

\* The Extract Text button is rendered when a selection object exists and is
\* disabled while isProcessing.
ExtractEnabled == ControlsShown /\ selection.present /\ ~isProcessing

\* performOCR up to its await: the crop is taken from the state of this
\* render, then the recognition call is outstanding.
PerformOCR ==
    /\ ExtractEnabled
    /\ IF currentPage + 1 \notin DOMAIN pdfPages
       THEN UNCHANGED vars
       ELSE /\ isProcessing' = TRUE
            /\ inflight' = Append(inflight,
                                   OcrJob(pdfPages[currentPage + 1], Crop(selection, zoom)))
            /\ UNCHANGED <<pdfFile, pdfPages, currentPage, zoom, selection, isSelecting,
                           extractedText, listeners, zoomedSinceDraw, pointer>>

\* The recognition call returned text.
RecognizeResolve(i, text) ==
    /\ i \in DOMAIN inflight
    /\ inflight[i].kind = "ocr"
    /\ extractedText' = Trim(text)
    /\ isProcessing' = FALSE
    /\ inflight' = RemoveAt(inflight, i)
    /\ UNCHANGED <<pdfFile, pdfPages, currentPage, zoom, selection, isSelecting,
                   listeners, zoomedSinceDraw, pointer>>

\* performOCR as it would be with setIsProcessing(false) at the end of the
\* try block only, and no finally block.
RecognizeFail_StaysProcessing(i) ==
    /\ i \in DOMAIN inflight
    /\ inflight[i].kind = "ocr"
    /\ inflight' = RemoveAt(inflight, i)
    /\ UNCHANGED <<pdfFile, pdfPages, currentPage, zoom, isProcessing, selection,
                   isSelecting, extractedText, listeners, zoomedSinceDraw, pointer>>

\* The recognition call threw.
RecognizeFail(i) ==
    /\ i \in DOMAIN inflight
    /\ inflight[i].kind = "ocr"
    /\ isProcessing' = FALSE
    /\ inflight' = RemoveAt(inflight, i)
    /\ UNCHANGED <<pdfFile, pdfPages, currentPage, zoom, selection, isSelecting,
                   extractedText, listeners, zoomedSinceDraw, pointer>>

----------------------------------------------------------------------------
(* Text panel *)

\* The text area and the Copy button are rendered only when extractedText is
\* non-empty.
EditText(t) ==
    /\ extractedText # << >>
    /\ extractedText' = t
    /\ UNCHANGED <<pdfFile, pdfPages, currentPage, zoom, isProcessing, selection,
                   isSelecting, listeners, inflight, zoomedSinceDraw, pointer>>

CopyToClipboard ==
    /\ extractedText # << >>
    /\ UNCHANGED vars

----------------------------------------------------------------------------
(* The session: every handler may run whenever its control is rendered and  *)
(* enabled (controls can be reached by keyboard while the processing        *)
(* overlay is shown).                                                       *)

\* Pointer events of the session lie on the diagonal of the screen, over a
\* canvas rendered at the screen's origin at its intrinsic size.
SessionClients == {0, 1}
SessionPoints ==
    { << CanvasCoord(c, 0, 1), CanvasCoord(c, 0, 1) >> : c \in SessionClients }

Next ==
    \/ \E f \in Files : HandleFileUpload(f)
    \/ \E i \in DOMAIN inflight : UploadResolve(i)
    \/ \E i \in DOMAIN inflight : UploadFail(i)
    \/ PreviousPage
    \/ NextPage
    \/ ZoomOut
    \/ ZoomIn
    \/ ZoomReset
    \/ ToggleSelecting
    \/ ClearSelection
    \/ \E p \in SessionPoints : HandleMouseDown(p[1], p[2])
    \/ \E p \in SessionPoints : HandleMouseMove(p[1], p[2])
    \/ HandleMouseUp
    \/ PerformOCR
    \/ \E i \in DOMAIN inflight, t \in RawTexts : RecognizeResolve(i, t)
    \/ \E i \in DOMAIN inflight : RecognizeFail(i)
    \/ \E t \in UserTexts : EditText(t)
    \/ CopyToClipboard

Spec == Init /\ [][Next]_vars

----------------------------------------------------------------------------
(* The mouse-only session: while isProcessing the full-screen overlay      *)
(* (fixed inset-0, z-50) lies over every control and over the canvas, so   *)
(* nothing can be clicked until the outstanding call settles.  Pointer     *)
(* events are drawn from a wider set, for every position and rendered size *)
(* of the canvas.                                                          *)

PointerPoints ==
    { CanvasCoord(c, o, s) : c \in 0 .. MaxClient, o \in RectOrigins, s \in Scales }

Settle ==
    \/ \E i \in DOMAIN inflight : UploadResolve(i)
    \/ \E i \in DOMAIN inflight : UploadFail(i)
    \/ \E i \in DOMAIN inflight, t \in RawTexts : RecognizeResolve(i, t)
    \/ \E i \in DOMAIN inflight : RecognizeFail(i)

Click ==
    \/ \E f \in Files : HandleFileUpload(f)
    \/ PreviousPage
    \/ NextPage
    \/ ZoomOut
    \/ ZoomIn
    \/ ZoomReset
    \/ ToggleSelecting
    \/ ClearSelection
    \/ \E x \in PointerPoints, y \in PointerPoints : HandleMouseDown(x, y)
    \/ PerformOCR
    \/ CopyToClipboard

Drag ==
    \/ \E x \in PointerPoints, y \in PointerPoints : HandleMouseMove(x, y)
    \/ HandleMouseUp

PointerNext ==
    \/ isProcessing /\ Settle
    \/ ~isProcessing /\ listeners = << >> /\ Click
    \/ ~isProcessing /\ listeners # << >> /\ Drag

PointerSpec == Init /\ [][PointerNext]_vars

\* The mouse-only session in which every outstanding call settles in the
\* end: the decoder and the recognition service return or throw, and the
\* event loop then runs the continuation.
LivePointerSpec == PointerSpec /\ WF_vars(Settle)

----------------------------------------------------------------------------
(* Properties *)

Jobs == { inflight[i] : i \in DOMAIN inflight }
OcrJobs == { j \in Jobs : j.kind = "ocr" }
UploadJobs == { j \in Jobs : j.kind = "upload" }

\* The recognition calls a step starts.
StartedOcr ==
    IF Len(inflight') > Len(inflight)
    THEN { inflight'[i] : i \in { k \in DOMAIN inflight' :
                                     k > Len(inflight) /\ inflight'[k].kind = "ocr" } }
    ELSE {}

\* a / b = c for fractions a and integers b, c without dividing: a.num = c * b * a.den
TimesZoomIs(q, z, n) == q.num * z = n * ZoomDen * q.den

\* C1: while a drag that began at canvas point (x0, y0) is in progress and
\* the pointer was last reported at (x1, y1), in any direction from there,
\* selection is {min(x0,x1), min(y0,y1), |x1-x0|, |y1-y0|}, with width and
\* height >= 0.
C1_DragSelectionNormalized ==
    listeners # << >> =>
        LET x0 == listeners[Len(listeners)].x
            y0 == listeners[Len(listeners)].y
            x1 == pointer.x
            y1 == pointer.y
        IN  /\ selection.present
            /\ selection.x = (IF x0 <= x1 THEN x0 ELSE x1)
            /\ selection.y = (IF y0 <= y1 THEN y0 ELSE y1)
            /\ selection.width = (IF x1 >= x0 THEN x1 - x0 ELSE x0 - x1)
            /\ selection.height = (IF y1 >= y0 THEN y1 - y0 ELSE y0 - y1)
            /\ selection.width >= 0
            /\ selection.height >= 0

\* C1 witness: a drag in progress that has moved up and to the left of its
\* start point.
C1_Witness ==
    /\ listeners # << >>
    /\ pointer.x < listeners[Len(listeners)].x
    /\ pointer.y < listeners[Len(listeners)].y
    /\ selection.present
    /\ selection.x < listeners[Len(listeners)].x
    /\ selection.y < listeners[Len(listeners)].y
    /\ selection.width = listeners[Len(listeners)].x - selection.x
    /\ selection.height > 0

\* C2 (as claimed): the Extract control is usable only with a selection of
\* non-zero width and height, and no recognition call is ever outstanding for
\* a crop of zero width or height.
C2_NoExtractionOfEmptySelection ==
    /\ ExtractEnabled => (selection.width > 0 /\ selection.height > 0)
    /\ \A j \in OcrJobs : j.crop.sourceWidth.num > 0 /\ j.crop.sourceHeight.num > 0

\* C3: the source rectangle of an extraction is the selection divided by the
\* zoom in effect in the step that triggers it, whatever zoom changes came
\* between drawing the selection and extracting.
C3_CropUsesZoomAtExtraction ==
    [][ PerformOCR =>
          /\ Cardinality(StartedOcr) = 1
          /\ \A j \in StartedOcr :
                /\ TimesZoomIs(j.crop.sourceX, zoom, selection.x)
                /\ TimesZoomIs(j.crop.sourceY, zoom, selection.y)
                /\ TimesZoomIs(j.crop.sourceWidth, zoom, selection.width)
                /\ TimesZoomIs(j.crop.sourceHeight, zoom, selection.height)
      ]_vars

\* C3 witness: the scenario of the claim at a smaller scale.  A selection
\* {0,0,2,2} was drawn, the zoom was then changed and is 2.0, and the
\* extraction just triggered crops the source at (0,0) with size 1 x 1.
C3_Witness ==
    /\ zoomedSinceDraw
    /\ zoom = 2 * ZoomDen
    /\ selection = Sel(0, 0, 2, 2)
    /\ \E j \in OcrJobs :
          /\ j.crop.sourceX.num = 0
          /\ j.crop.sourceWidth.num = j.crop.sourceWidth.den
          /\ j.crop.sourceHeight.num = j.crop.sourceHeight.den
          /\ j.crop.width = 1 /\ j.crop.height = 1

SupportedTypes ==
    { << "application", "pdf" >>, << "image", "jpeg" >>, << "image", "png" >> }

\* C5 (as claimed): an upload of a file whose type is not PDF, JPEG or PNG
\* changes no state and starts no decode.
C5_UnsupportedUploadChangesNothing ==
    [][ \A f \in Files :
          (FileType(f) \notin SupportedTypes /\ HandleFileUpload(f)) => UNCHANGED vars
      ]_vars

Spaces(n) == [i \in 1 .. n |-> " "]

\* r is t without its leading and trailing white space.
IsTrimOf(r, t) ==
    /\ r = << >> \/ (r[1] # " " /\ r[Len(r)] # " ")
    /\ \E a \in 0 .. Len(t), b \in 0 .. Len(t) : t = Spaces(a) \o r \o Spaces(b)

\* C6: a drag begun while a recognition call is outstanding overwrites the
\* selection and leaves the call outstanding; the call holds the page and the
\* crop of the selection and zoom of the step that triggered it; and when it
\* returns, extractedText becomes its trimmed text, whatever the selection
\* is by then, and the selection is left as it is.
C6_NewDragDoesNotCancelRecognition ==
    [][ /\ (Len(listeners') > Len(listeners) /\ OcrJobs # {}) =>
              LET down == listeners'[Len(listeners')]
              IN  HandleMouseDown(down.x, down.y) =>
                      /\ selection' = [x |-> down.x, y |-> down.y, width |-> 0,
                                       height |-> 0, present |-> TRUE]
                      /\ inflight' = inflight
        /\ \A j \in StartedOcr :
              /\ j.page = pdfPages[currentPage + 1]
              /\ TimesZoomIs(j.crop.sourceX, zoom, selection.x)
              /\ TimesZoomIs(j.crop.sourceY, zoom, selection.y)
              /\ TimesZoomIs(j.crop.sourceWidth, zoom, selection.width)
              /\ TimesZoomIs(j.crop.sourceHeight, zoom, selection.height)
        /\ Len(inflight') < Len(inflight) =>
              \A i \in DOMAIN inflight, t \in RawTexts :
                  RecognizeResolve(i, t) =>
                      /\ IsTrimOf(extractedText', t)
                      /\ selection' = selection
                      /\ inflight' = RemoveAt(inflight, i)
      ]_vars

\* C6 witness: a recognition call for a crop of non-zero size is outstanding
\* and a drag has just begun: the selection is the empty rectangle at the
\* drag's start point, which is not the rectangle the call was given.
C6_Witness ==
    /\ listeners # << >>
    /\ selection = Sel(listeners[Len(listeners)].x, listeners[Len(listeners)].y, 0, 0)
    /\ \E j \in OcrJobs :
          /\ j.crop.width > 0 /\ j.crop.height > 0
          /\ j.crop # Crop(selection, zoom)

\* C7: in every state at most one upload-decode or recognition call is
\* outstanding, counting each call started, and isProcessing is true exactly
\* while one is; so no call is started while isProcessing.
C7_ProcessingGate ==
    /\ Len(inflight) <= 1
    /\ isProcessing <=> (inflight # << >>)

\* C7 witness: an upload is outstanding while a selection exists on a loaded
\* page, so the Extract button is rendered, and it is disabled.
C7_Witness ==
    /\ isProcessing
    /\ UploadJobs # {}
    /\ Len(inflight) = 1
    /\ ControlsShown
    /\ selection.present
    /\ ~ExtractEnabled

\* C8: a failed decode leaves pdfPages and currentPage as they are and a
\* failed recognition leaves extractedText as it is; a successful decode
\* replaces pdfPages by the whole decoded document and sets currentPage to 0
\* in one step, a successful recognition replaces extractedText in one step;
\* and no other step changes pdfPages.
C8_FailureAtomicity ==
    [][ /\ Len(inflight') < Len(inflight) =>
              \A i \in DOMAIN inflight :
                  IF inflight[i].kind = "upload"
                  THEN /\ UploadFail(i) =>
                             (pdfPages' = pdfPages /\ currentPage' = currentPage)
                       /\ UploadResolve(i) =>
                             /\ pdfPages' = DecodedPages(inflight[i].file)
                             /\ \A n \in 1 .. Len(pdfPages') : pdfPages'[n].pageNumber = n
                             /\ currentPage' = 0
                  ELSE /\ RecognizeFail(i) => extractedText' = extractedText
                       /\ \A t \in RawTexts :
                             RecognizeResolve(i, t) => IsTrimOf(extractedText', t)
        /\ pdfPages' # pdfPages =>
              \E i \in DOMAIN inflight :
                  /\ inflight[i].kind = "upload"
                  /\ inflight' = RemoveAt(inflight, i)
                  /\ pdfPages' = DecodedPages(inflight[i].file)
      ]_vars

\* C8 witness: the PDF was uploaded after the image had been loaded and its
\* decode failed: the page list is still the image's single page.
C8_Witness ==
    /\ pdfFile = "doc.pdf"
    /\ inflight = << >>
    /\ ~isProcessing
    /\ Len(pdfPages) = 1
    /\ pdfPages = DecodedPages("anim.gif")

\* C9 (as claimed): a present selection has x, y, width and height >= 0.
C9_SelectionNonNegative ==
    selection.present =>
        (selection.x >= 0 /\ selection.y >= 0 /\ selection.width >= 0 /\ selection.height >= 0)

\* C10 (as claimed): the source rectangle of every extraction lies within the
\* page it is cropped from: 0 <= sourceX, 0 <= sourceY,
\* sourceX + sourceWidth <= page width, sourceY + sourceHeight <= page height.
C10_SourceRectWithinPage ==
    \A j \in OcrJobs :
        /\ j.crop.sourceX.num >= 0
        /\ j.crop.sourceY.num >= 0
        /\ j.crop.sourceX.num + j.crop.sourceWidth.num <= j.page.width * j.crop.sourceX.den
        /\ j.crop.sourceY.num + j.crop.sourceHeight.num <= j.page.height * j.crop.sourceY.den

\* C11 (as claimed): a step that changes the current page, the page list or
\* the zoom while a selection exists leaves the selection cleared or not
\* accepted for extraction, and no extraction starts with a selection that
\* was drawn before a change of the zoom.
C11_StaleSelectionNotExtracted ==
    [][ /\ (/\ selection.present
            /\ (currentPage' # currentPage \/ pdfPages' # pdfPages \/ zoom' # zoom))
              => (~selection'.present \/ ~ExtractEnabled')
        /\ StartedOcr # {} => ~zoomedSinceDraw
      ]_vars

\* The fraction q >= 0 rounded to the nearest integer, halves upwards.
RoundNearest(q) == (2 * q.num + q.den) \div (2 * q.den)

\* C12 (as claimed): the crop buffer of every extraction of a selection of
\* non-zero width and height is round(selection.width / zoom) pixels wide
\* and round(selection.height / zoom) pixels high.
C12_CropBufferRounded ==
    \A j \in OcrJobs :
        (j.crop.sourceWidth.num > 0 /\ j.crop.sourceHeight.num > 0) =>
            /\ j.crop.width = RoundNearest(j.crop.sourceWidth)
            /\ j.crop.height = RoundNearest(j.crop.sourceHeight)

\* C13: the zoom is 1.0 at first and within [0.5, 3.0] after every step; a
\* step that changes it is one of the three zoom controls, and moves it by
\* one quarter or back to 1.0.
C13_ZoomWithinRange ==
    /\ zoom = ZoomDefault
    /\ [][ /\ ZoomMin <= zoom' /\ zoom' <= ZoomMax
           /\ zoom' # zoom =>
                 /\ ZoomOut \/ ZoomIn \/ ZoomReset
                 /\ zoom' \in {zoom - 1, zoom + 1, ZoomDefault}
         ]_vars

\* C13 witness: zoom-in has reached the upper end of the range, with a
\* selection drawn and selecting mode still on.
C13_Witness ==
    /\ zoom = ZoomMax
    /\ selection.present
    /\ isSelecting

\* C14: a mouse-down on the canvas while selecting mode is off changes no
\* state, so it starts no drag; a step that starts a drag is taken in
\* selecting mode and leaves selection = {x0, y0, 0, 0} for the point
\* (x0, y0) of the mouse-down, whatever the selection was.
C14_MouseDownOnlyWhileSelecting ==
    [][ /\ ~isSelecting =>
              \A p \in SessionPoints :
                  HandleMouseDown(p[1], p[2]) => UNCHANGED vars
        /\ Len(listeners') > Len(listeners) =>
              LET down == listeners'[Len(listeners')]
              IN  /\ isSelecting
                  /\ HandleMouseDown(down.x, down.y)
                  /\ selection' = [x |-> down.x, y |-> down.y, width |-> 0,
                                   height |-> 0, present |-> TRUE]
      ]_vars

\* C14 witness: text was extracted from an earlier selection, selecting mode
\* was turned on again and a mouse-down has just replaced that selection by
\* the empty rectangle at its own point.
C14_Witness ==
    /\ extractedText # << >>
    /\ isSelecting
    /\ listeners # << >>
    /\ pointer = listeners[Len(listeners)]
    /\ selection = Sel(pointer.x, pointer.y, 0, 0)
    /\ pointer.x > 0

\* C15: a mouse-up removes every drag listener, turns selecting mode off and
\* leaves the selection as the drag left it; while no listener is installed
\* the selection changes only by being cleared or by a mouse-down that
\* starts a drag; a drag starts only in selecting mode, and only the
\* Select Text button turns selecting mode on, so a further drag needs the
\* button again.
C15_DragEndFreezesSelection ==
    [][ /\ HandleMouseUp =>
              /\ listeners' = << >>
              /\ ~isSelecting'
              /\ selection' = selection
        /\ Len(listeners') < Len(listeners) => HandleMouseUp
        /\ (listeners = << >> /\ selection' # selection) =>
              \/ ClearSelection
              \/ /\ isSelecting
                 /\ listeners' # << >>
                 /\ selection'.width = 0 /\ selection'.height = 0
        /\ (listeners = << >> /\ listeners' # << >>) => isSelecting
        /\ (~isSelecting /\ isSelecting') => ToggleSelecting
      ]_vars

\* C15 witness: a drag has ended: no listener is installed, selecting mode
\* is off, and the selection is the non-empty rectangle the drag made.
C15_Witness ==
    /\ listeners = << >>
    /\ ~isSelecting
    /\ selection.present
    /\ selection.width > 0 /\ selection.height > 0
    /\ ~isProcessing
    /\ extractedText = << >>

\* C16: a step that changes the current page, the zoom or the page list
\* leaves the selection as it is, and a selection that exists is then
\* accepted by the Extract Text button against the page and zoom the step
\* made current.
C16_SelectionSurvivesPageAndZoom ==
    [][ (currentPage' # currentPage \/ zoom' # zoom \/ pdfPages' # pdfPages) =>
            /\ selection' = selection
            /\ selection.present =>
                  /\ ExtractEnabled'
                  /\ currentPage' + 1 \in DOMAIN pdfPages'
      ]_vars

\* C16 witness: a selection of non-zero size was drawn, the zoom was changed
\* and the second page of the document is shown; the selection is still
\* there and the Extract Text button is usable.
C16_Witness ==
    /\ zoomedSinceDraw
    /\ currentPage = 1
    /\ selection.present
    /\ selection.width > 0 /\ selection.height > 0
    /\ ExtractEnabled

\* C17: the step in which an outstanding call settles, by returning or by
\* throwing, leaves isProcessing false; and whenever isProcessing is true, a
\* state follows in which it is false and no call is outstanding, so the
\* file input and the Extract Text button are enabled again.
C17_ProcessingEnds ==
    /\ [][Len(inflight') < Len(inflight) => ~isProcessing']_vars
    /\ isProcessing ~> (~isProcessing /\ inflight = << >>)

\* C17 witness: the first upload failed: the file was recorded, no page was
\* loaded, no call is outstanding and isProcessing is false again.
C17_Witness ==
    /\ pdfFile # NoFile
    /\ pdfPages = << >>
    /\ inflight = << >>
    /\ ~isProcessing

\* C18: whenever pages are loaded, currentPage is the index of one of them:
\* 0 <= currentPage <= pdfPages.length - 1.
C18_CurrentPageInRange ==
    Len(pdfPages) > 0 => (0 <= currentPage /\ currentPage <= Len(pdfPages) - 1)

\* C18 witness: the second page of the two-page document is shown, reached
\* by Next while the upload of the one-page image is in flight.
C18_Witness ==
    /\ currentPage = 1
    /\ Len(pdfPages) = 2
    /\ isProcessing
    /\ \E j \in UploadJobs : Len(DecodedPages(j.file)) = 1

====
